---------------------------- MODULE Spec2Model ----------------------------
(* The notebook notebooks/4_production_TFServing.ipynb as a state machine.   *)
(* One action per code cell, in the order the cells stand in the notebook.   *)
(* A cell that raises stops the run (pc = "halted", err = the exception).    *)
(* The files on disk, the ONNX file's graph, the server's answers and the    *)
(* I/O failures are the environment: they are drawn from small sets.         *)
EXTENDS Integers, Sequences, FiniteSets, TLC

\* ------------------------------------------------------------------ bounds
\* Version directories that may lie under ../models/tf_emnist/ before a run.
MaxVersion == 2
\* Rows of one predict request (the notebook's literal is 1).
MaxRows == 2
\* Examples of one accuracy evaluation (the notebook passes n_examples=1000).
MaxExamples == 2

\* ------------------------------------------------------- program constants
model_version == 1
InputDim == 784
NClasses == 62

\* signature_constants of tensorflow, as printed in the cells' outputs
CLASSIFY_INPUTS == "inputs"
CLASSIFY_OUTPUT_SCORES == "scores"
CLASSIFY_METHOD_NAME == "tensorflow/serving/classify"
PREDICT_METHOD_NAME == "tensorflow/serving/predict"
DEFAULT_SERVING_SIGNATURE_DEF_KEY == "serving_default"

INPUT_TENSOR_NAME == "flattened_rescaled_img_28x28:0"
OUTPUT_TENSOR_NAME == "Softmax:0"

\* An absent value (Python's unbound name or None) is <<>>, a present one <<v>>.
None == <<>>
Some(v) == <<v>>
IsSet(o) == Len(o) = 1
Get(o) == o[1]

\* ------------------------------------------------------------ file system
BundleFiles == {"variables", "saved_model.pb"}
AbsentDir == [exists |-> FALSE, files |-> {}]
EmptyDir == [exists |-> TRUE, files |-> {}]
CompleteDir == [exists |-> TRUE, files |-> BundleFiles]
Versions == 1..MaxVersion

\* The model directory and its version directories before the run.
InitialFs ==
  {[dir_exists |-> FALSE, versions |-> [v \in Versions |-> AbsentDir]]}
  \cup {[dir_exists |-> TRUE, versions |-> vs] :
          vs \in [Versions -> {AbsentDir, EmptyDir, CompleteDir}]}

\* A cleanup that removes only the version directory about to be exported.
CleanupVersionOnly(f) ==
  [f EXCEPT !.versions[model_version] = AbsentDir]

\* shutil.rmtree(export_path) when os.path.exists(export_path)
Cleanup(f) ==
  IF f.dir_exists
    THEN [dir_exists |-> FALSE, versions |-> [v \in Versions |-> AbsentDir]]
    ELSE f

\* os.path.join('..', 'models', model_name, str(model_version)): the version
\* directory under the model directory
ModelPathExists(f) == f.versions[model_version].exists

\* SavedModelBuilder(model_path): creates the export directory
SavedModelBuilder(f) ==
  [dir_exists |-> TRUE,
   versions |-> [f.versions EXCEPT ![model_version] = EmptyDir]]

WriteFiles(f, fileset) ==
  [f EXCEPT !.versions[model_version].files = @ \cup fileset]

\* ------------------------------------------------------------------ graph
DTypes == {"float32", "int64"}
Shapes == {<< >>, <<1, InputDim>>, <<1, NClasses>>}
TensorNameSets == {{INPUT_TENSOR_NAME, OUTPUT_TENSOR_NAME}, {OUTPUT_TENSOR_NAME}}

\* The converted graphs prepare() may give: a dict of named tensors, each with
\* a dtype and a shape (a scalar tensor has the empty shape).
Graphs ==
  UNION {[names -> [dtype : DTypes, shape : Shapes]] : names \in TensorNameSets}

\* graph.get_tensor_by_name(name): the tensor, or KeyError (None here)
get_tensor_by_name(g, name) ==
  IF name \in DOMAIN g
    THEN Some([name |-> name, dtype |-> g[name].dtype, shape |-> g[name].shape])
    ELSE None

\* DType.as_datatype_enum
as_datatype_enum(d) ==
  CASE d = "float32" -> "DT_FLOAT"
    [] d = "int64" -> "DT_INT64"
    [] OTHER -> "DT_INVALID"

\* TensorShape.as_proto(): one dim {size} per dimension
as_proto(shape) == [i \in 1..Len(shape) |-> [size |-> shape[i]]]

\* build_tensor_info(tensor): no check of dtype or shape is made
build_tensor_info(t) ==
  [name |-> t.name,
   dtype |-> as_datatype_enum(t.dtype),
   tensor_shape |-> as_proto(t.shape)]

\* signature_def_utils.build_signature_def(inputs={ik: i}, outputs={ok: o},
\* method_name=m): copies the descriptors under the keys, no check is made
build_signature_def(ik, i, ok, o, m) ==
  [inputs |-> [k \in {ik} |-> i],
   outputs |-> [k \in {ok} |-> o],
   method_name |-> m]

\* The classification signature cell: CLASSIFY keys, input then output.
ClassificationSignature(i, o) ==
  build_signature_def(CLASSIFY_INPUTS, i, CLASSIFY_OUTPUT_SCORES, o,
                      CLASSIFY_METHOD_NAME)

\* A prediction signature with the two descriptors exchanged.
PredictionSignatureSwapped(i, o) ==
  build_signature_def("images", o, "scores", i, PREDICT_METHOD_NAME)

\* The prediction signature cell: keys 'images' and 'scores'.
PredictionSignature(i, o) ==
  build_signature_def("images", i, "scores", o, PREDICT_METHOD_NAME)

\* A signature map with the two signatures under each other's key.
SignatureDefMapSwapped(pred, cls) ==
  [k \in {"predict_images", DEFAULT_SERVING_SIGNATURE_DEF_KEY} |->
     IF k = "predict_images" THEN cls ELSE pred]

\* The signature_def_map literal of the export cell.
SignatureDefMap(pred, cls) ==
  [k \in {"predict_images", DEFAULT_SERVING_SIGNATURE_DEF_KEY} |->
     IF k = "predict_images" THEN pred ELSE cls]

\* ------------------------------------------------------------------ cells
\* An order in which the signature cells precede the exporter's creation.
CellsSignaturesFirst == <<"cell4", "cell7", "cell10", "cell12", "cell5", "cell14",
                          "status", "payload", "post", "decode", "eval", "done">>

\* The cells in notebook order (execution counts 4, 5, 7, 10, 12, 14, then the
\* cells of "Test the Deployment").
CellOrder == <<"cell4", "cell5", "cell7", "cell10", "cell12", "cell14",
               "status", "payload", "post", "decode", "eval", "done">>

IndexOf(s, c) == CHOOSE i \in 1..Len(s) : s[i] = c
NextCell(c) == CellOrder[IndexOf(CellOrder, c) + 1]

VARIABLES
  pc,                       \* the cell to run next, "done" or "halted"
  err,                      \* the cell that raised and its exception, or NoError
  fs,                       \* ../models/tf_emnist/ on disk
  onnx_file,                \* the graph prepare() gives for the ONNX file, None when the file is missing
  dnn_model_tf,             \* the converted graph
  builder,                  \* the SavedModelBuilder
  input_tensor_info,
  output_tensor_info,
  classification_signature,
  prediction_signature,
  status_response,          \* r of the status cell
  data_payload,             \* the predict request's body
  predict_response,         \* r of the predict cell
  class_index,              \* np.argmax(...) of the decode cell
  eval_state,               \* eval_serving_performance's loop
  other_version_removed     \* history: the cleanup met a version directory other than model_version

vars == <<pc, err, fs, onnx_file, dnn_model_tf, builder, input_tensor_info,
          output_tensor_info, classification_signature, prediction_signature,
          status_response, data_payload, predict_response, class_index,
          eval_state, other_version_removed>>

pipelineVars == <<dnn_model_tf, builder, input_tensor_info, output_tensor_info,
                  classification_signature, prediction_signature,
                  other_version_removed>>
clientVars == <<status_response, data_payload, predict_response, class_index,
                eval_state>>

NoError == [cell |-> "", exception |-> "none"]
Raised(cell, e) == [cell |-> cell, exception |-> e]

NoEval == [idx |-> 0, correct |-> 0, processed |-> 0, outcomes |-> << >>,
           aborted |-> FALSE, accuracy |-> None]

Init ==
  /\ pc = "cell4"
  /\ err = NoError
  /\ fs \in InitialFs
  /\ onnx_file \in {None} \cup {Some(g) : g \in Graphs}
  /\ dnn_model_tf = None
  /\ builder = None
  /\ input_tensor_info = None
  /\ output_tensor_info = None
  /\ classification_signature = None
  /\ prediction_signature = None
  /\ status_response = None
  /\ data_payload = None
  /\ predict_response = None
  /\ class_index = None
  /\ eval_state = NoEval
  /\ other_version_removed = FALSE

\* onnx.load(onnx_model_path); prepare(dnn_model_onnx, device='cpu')
Cell4_LoadConvert ==
  /\ pc = "cell4"
  /\ IF IsSet(onnx_file)
       THEN /\ dnn_model_tf' = onnx_file
            /\ pc' = NextCell("cell4")
            /\ err' = err
       ELSE /\ dnn_model_tf' = dnn_model_tf
            /\ pc' = "halted"
            /\ err' = Raised("cell4", "FileNotFoundError")
  /\ UNCHANGED <<fs, onnx_file, builder, input_tensor_info, output_tensor_info,
                 classification_signature, prediction_signature,
                 other_version_removed>>
  /\ UNCHANGED clientVars

\* if os.path.exists(export_path): shutil.rmtree(export_path)
\* builder = tf.saved_model.builder.SavedModelBuilder(model_path)
Cell5_CleanupAndBuilder ==
  /\ pc = "cell5"
  /\ other_version_removed' =
       (\E v \in Versions \ {model_version} : fs.versions[v].exists)
  /\ LET cleaned == Cleanup(fs) IN
       IF ModelPathExists(cleaned)
         THEN /\ fs' = cleaned
              /\ builder' = builder
              /\ pc' = "halted"
              /\ err' = Raised("cell5", "AssertionError")
         ELSE /\ fs' = SavedModelBuilder(cleaned)
              /\ builder' = Some([export_dir |-> model_version,
                                  has_saved_variables |-> FALSE,
                                  signature_def_map |-> None,
                                  saved |-> FALSE])
              /\ pc' = NextCell("cell5")
              /\ err' = err
  /\ UNCHANGED <<onnx_file, dnn_model_tf, input_tensor_info, output_tensor_info,
                 classification_signature, prediction_signature>>
  /\ UNCHANGED clientVars

\* input_tensor = graph.get_tensor_by_name(...); build_tensor_info(...)
Cell7_TensorInfo ==
  /\ pc = "cell7"
  /\ LET g == Get(dnn_model_tf)
         input_tensor == get_tensor_by_name(g, INPUT_TENSOR_NAME)
         output_tensor == get_tensor_by_name(g, OUTPUT_TENSOR_NAME)
     IN IF IsSet(input_tensor) /\ IsSet(output_tensor)
          THEN /\ input_tensor_info' = Some(build_tensor_info(Get(input_tensor)))
               /\ output_tensor_info' = Some(build_tensor_info(Get(output_tensor)))
               /\ pc' = NextCell("cell7")
               /\ err' = err
          ELSE /\ UNCHANGED <<input_tensor_info, output_tensor_info>>
               /\ pc' = "halted"
               /\ err' = Raised("cell7", "KeyError")
  /\ UNCHANGED <<fs, onnx_file, dnn_model_tf, builder, classification_signature,
                 prediction_signature, other_version_removed>>
  /\ UNCHANGED clientVars

\* classification_signature = build_signature_def(...)
Cell10_ClassificationSignature ==
  /\ pc = "cell10"
  /\ classification_signature' =
       Some(ClassificationSignature(Get(input_tensor_info), Get(output_tensor_info)))
  /\ pc' = NextCell("cell10")
  /\ UNCHANGED <<err, fs, onnx_file, dnn_model_tf, builder, input_tensor_info,
                 output_tensor_info, prediction_signature, other_version_removed>>
  /\ UNCHANGED clientVars

\* prediction_signature = build_signature_def(...)
Cell12_PredictionSignature ==
  /\ pc = "cell12"
  /\ prediction_signature' =
       Some(PredictionSignature(Get(input_tensor_info), Get(output_tensor_info)))
  /\ pc' = NextCell("cell12")
  /\ UNCHANGED <<err, fs, onnx_file, dnn_model_tf, builder, input_tensor_info,
                 output_tensor_info, classification_signature, other_version_removed>>
  /\ UNCHANGED clientVars

\* How far the writes of the export cell get: the variables directory of
\* add_meta_graph_and_variables, then saved_model.pb of builder.save().
ExportOutcomes == {"ok", "io_error_before_write", "io_error_after_first_write"}

ExportWrites(f, outcome) ==
  CASE outcome = "ok" -> WriteFiles(f, {"variables", "saved_model.pb"})
    [] outcome = "io_error_after_first_write" -> WriteFiles(f, {"variables"})
    [] OTHER -> f

\* builder.add_meta_graph_and_variables(sess, [SERVING], signature_def_map=...)
\* builder.save(): written into the final path, nothing is undone on failure
Cell14_Export ==
  /\ pc = "cell14"
  /\ \E outcome \in ExportOutcomes :
       /\ fs' = ExportWrites(fs, outcome)
       /\ builder' = Some([Get(builder) EXCEPT
                       !.has_saved_variables = (outcome # "io_error_before_write"),
                       !.signature_def_map =
                          Some(SignatureDefMap(Get(prediction_signature),
                                               Get(classification_signature))),
                       !.saved = (outcome = "ok")])
       /\ IF outcome = "ok"
            THEN pc' = NextCell("cell14") /\ err' = err
            ELSE pc' = "halted" /\ err' = Raised("cell14", "IOError")
  /\ UNCHANGED <<onnx_file, dnn_model_tf, input_tensor_info, output_tensor_info,
                 classification_signature, prediction_signature,
                 other_version_removed>>
  /\ UNCHANGED clientVars

\* ---------------------------------------------------------- serving client
StatusCodes == {200, 404}
Is2xx(code) == code \div 100 = 2

\* What the server may answer to GET /v1/models/tf_emnist: None when no
\* connection is made, else a status code and a body that is JSON or not.
StatusResponses ==
  {None} \cup {Some([status_code |-> c, body_is_json |-> j]) :
                 c \in StatusCodes, j \in BOOLEAN}

\* r = requests.get(...); print(r.status_code); print(r.json())
\* no try/except: ConnectionError and the JSON decoder's ValueError propagate
Cell_Status ==
  /\ pc = "status"
  /\ \E r \in StatusResponses :
       IF ~IsSet(r)
         THEN /\ status_response' = status_response
              /\ pc' = "halted"
              /\ err' = Raised("status", "ConnectionError")
         ELSE /\ status_response' = r
              /\ IF Get(r).body_is_json
                   THEN pc' = NextCell("status") /\ err' = err
                   ELSE pc' = "halted" /\ err' = Raised("status", "ValueError")
  /\ UNCHANGED <<fs, onnx_file, data_payload, predict_response, class_index,
                 eval_state>>
  /\ UNCHANGED pipelineVars

\* random_img = np.random.uniform(size=(n, 784)); {"instances": random_img.tolist()}
\* (n is 1 in the notebook; the request's row count is drawn from 1..MaxRows)
Cell_Payload ==
  /\ pc = "payload"
  /\ \E n \in 1..MaxRows :
       data_payload' = Some([rows |-> n, cols |-> InputDim])
  /\ pc' = NextCell("payload")
  /\ UNCHANGED <<err, fs, onnx_file, status_response, predict_response,
                 class_index, eval_state>>
  /\ UNCHANGED pipelineVars

\* A score row of NClasses floats: val at index peak (0-based), 0 elsewhere.
ScoreRow(peak, val) == [k \in 1..NClasses |-> IF k = peak + 1 THEN val ELSE 0]
ScoreRows == {ScoreRow(p, v) : p \in {0, NClasses - 1}, v \in {1, 2}}

\* The predict endpoint's answer to n instances: n score rows.
ServerPredictions(n) == [1..n -> ScoreRows]

PredictResponses(n) ==
  {None}
  \cup {Some([status_code |-> 200, body |-> "predictions", predictions |-> p]) :
          p \in ServerPredictions(n)}
  \cup {Some([status_code |-> 404, body |-> b, predictions |-> << >>]) :
          b \in {"error", "not_json"}}

\* r = requests.post(url, data=json.dumps(data_payload))
Cell_Post ==
  /\ pc = "post"
  /\ \E r \in PredictResponses(Get(data_payload).rows) :
       IF ~IsSet(r)
         THEN /\ predict_response' = predict_response
              /\ pc' = "halted"
              /\ err' = Raised("post", "ConnectionError")
         ELSE /\ predict_response' = r
              /\ pc' = NextCell("post")
              /\ err' = err
  /\ UNCHANGED <<fs, onnx_file, status_response, data_payload, class_index,
                 eval_state>>
  /\ UNCHANGED pipelineVars

RECURSIVE Flatten(_)
\* The row-major flattening numpy makes of a 2-d array.
Flatten(rows) ==
  IF rows = << >> THEN << >> ELSE Head(rows) \o Flatten(Tail(rows))

SeqMax(s) == CHOOSE m \in {s[i] : i \in 1..Len(s)} : \A i \in 1..Len(s) : s[i] <= m

\* The 0-based index of the first maximum of a 1-d array.
ArgMax1(s) ==
  CHOOSE i \in 0..(Len(s) - 1) :
    /\ s[i + 1] = SeqMax(s)
    /\ \A j \in 0..(i - 1) : s[j + 1] < SeqMax(s)

\* np.argmax(a) with no axis: the index into the flattened array.
NpArgMax(predictions) == ArgMax1(Flatten(predictions))

\* print(r.status_code); print(r.json()); np.argmax(r.json()['predictions'])
Cell_Decode ==
  /\ pc = "decode"
  /\ LET r == Get(predict_response) IN
       CASE r.body = "not_json" ->
              /\ class_index' = class_index
              /\ pc' = "halted"
              /\ err' = Raised("decode", "ValueError")
         [] r.body = "error" ->
              /\ class_index' = class_index
              /\ pc' = "halted"
              /\ err' = Raised("decode", "KeyError")
         [] OTHER ->
              /\ class_index' = Some(NpArgMax(r.predictions))
              /\ pc' = NextCell("decode")
              /\ err' = err
  /\ UNCHANGED <<fs, onnx_file, status_response, data_payload, predict_response,
                 eval_state>>
  /\ UNCHANGED pipelineVars

\* ------------------------------------------- eval_serving_performance
\* emnist_dl2prod/utils.py is not among the source files: the loop follows the
\* specification's error-handling section.
n_examples == MaxExamples

NetworkErrors == {"connection_refused", "timeout", "non_2xx", "malformed_json"}
RequestOutcomes == {"ok_match", "ok_mismatch"} \cup NetworkErrors

\* A loop body that lets a network error end the loop.
EvalStepAbortOnError(st, outcome) ==
  IF outcome \in NetworkErrors
    THEN [st EXCEPT !.aborted = TRUE]
    ELSE [st EXCEPT !.idx = @ + 1,
                    !.processed = @ + 1,
                    !.correct = IF outcome = "ok_match" THEN @ + 1 ELSE @,
                    !.outcomes = Append(@, outcome)]

\* One request of the loop: an error is caught and counts as a miss.
EvalStep(st, outcome) ==
  [st EXCEPT !.idx = @ + 1,
             !.processed = @ + 1,
             !.correct = IF outcome = "ok_match" THEN @ + 1 ELSE @,
             !.outcomes = Append(@, outcome)]

\* The accuracy the loop ends with: correct over processed, as a fraction.
EvalAccuracy(st) == <<st.correct, st.processed>>

Eval_Request ==
  /\ pc = "eval"
  /\ ~eval_state.aborted
  /\ eval_state.idx < n_examples
  /\ \E outcome \in RequestOutcomes :
       eval_state' = EvalStep(eval_state, outcome)
  /\ UNCHANGED <<pc, err, fs, onnx_file, status_response, data_payload,
                 predict_response, class_index>>
  /\ UNCHANGED pipelineVars

Eval_Finish ==
  /\ pc = "eval"
  /\ ~eval_state.aborted
  /\ eval_state.idx = n_examples
  /\ eval_state' = [eval_state EXCEPT !.accuracy = Some(EvalAccuracy(eval_state))]
  /\ pc' = NextCell("eval")
  /\ UNCHANGED <<err, fs, onnx_file, status_response, data_payload,
                 predict_response, class_index>>
  /\ UNCHANGED pipelineVars

Next ==
  \/ Cell4_LoadConvert
  \/ Cell5_CleanupAndBuilder
  \/ Cell7_TensorInfo
  \/ Cell10_ClassificationSignature
  \/ Cell12_PredictionSignature
  \/ Cell14_Export
  \/ Cell_Status
  \/ Cell_Payload
  \/ Cell_Post
  \/ Cell_Decode
  \/ Eval_Request
  \/ Eval_Finish

Spec == Init /\ [][Next]_vars

\* ----------------------------------------------------------------- claims
VersionDir == fs.versions[model_version]
DescriptorValid(d) == d.dtype # "DT_INVALID" /\ Len(d.tensor_shape) > 0
DescriptorsBuilt == IsSet(input_tensor_info) /\ IsSet(output_tensor_info)
DimSizes(d) == [i \in 1..Len(d.tensor_shape) |-> d.tensor_shape[i].size]

\* C3: building a signature fails with a configuration error whenever either
\* descriptor has an unset dtype or a shape with zero dimensions, and no
\* Signature is produced then.
C3_BuildFailsOnInvalidDescriptor ==
  (DescriptorsBuilt
   /\ ~(DescriptorValid(Get(input_tensor_info))
        /\ DescriptorValid(Get(output_tensor_info))))
  => (classification_signature = None /\ prediction_signature = None)

\* C4: for valid input and output descriptors the signatures hold, under
\* their role keys, descriptors with the name, dtype and shape of the tensors
\* they were built from, and the requested method.
C4_SignatureEchoesDescriptors ==
  (DescriptorsBuilt
   /\ DescriptorValid(Get(input_tensor_info))
   /\ DescriptorValid(Get(output_tensor_info)))
  => LET g == Get(dnn_model_tf)
         i == Get(input_tensor_info)
         o == Get(output_tensor_info)
         Echoes(d, name) ==
           /\ d.name = name
           /\ d.dtype = as_datatype_enum(g[name].dtype)
           /\ DimSizes(d) = g[name].shape
     IN /\ IsSet(prediction_signature) =>
             LET sig == Get(prediction_signature) IN
               /\ DOMAIN sig.inputs = {"images"}
               /\ DOMAIN sig.outputs = {"scores"}
               /\ sig.inputs["images"] = i
               /\ sig.outputs["scores"] = o
               /\ Echoes(sig.inputs["images"], INPUT_TENSOR_NAME)
               /\ Echoes(sig.outputs["scores"], OUTPUT_TENSOR_NAME)
               /\ sig.method_name = PREDICT_METHOD_NAME
        /\ IsSet(classification_signature) =>
             LET sig == Get(classification_signature) IN
               /\ DOMAIN sig.inputs = {CLASSIFY_INPUTS}
               /\ DOMAIN sig.outputs = {CLASSIFY_OUTPUT_SCORES}
               /\ sig.inputs[CLASSIFY_INPUTS] = i
               /\ sig.outputs[CLASSIFY_OUTPUT_SCORES] = o
               /\ Echoes(sig.inputs[CLASSIFY_INPUTS], INPUT_TENSOR_NAME)
               /\ Echoes(sig.outputs[CLASSIFY_OUTPUT_SCORES], OUTPUT_TENSOR_NAME)
               /\ sig.method_name = CLASSIFY_METHOD_NAME

\* C4 witness: both signatures built from the float32 tensors of shapes
\* (1, 784) and (1, 62).
C4_Witness ==
  /\ IsSet(prediction_signature)
  /\ IsSet(classification_signature)
  /\ Get(prediction_signature).inputs["images"].name = INPUT_TENSOR_NAME
  /\ Get(prediction_signature).inputs["images"].dtype = "DT_FLOAT"
  /\ DimSizes(Get(prediction_signature).inputs["images"]) = <<1, InputDim>>
  /\ DimSizes(Get(prediction_signature).outputs["scores"]) = <<1, NClasses>>

Hits(outcomes) == Cardinality({i \in 1..Len(outcomes) : outcomes[i] = "ok_match"})

\* C5: in the accuracy-evaluation loop a network error on one request is a
\* miss and never aborts the loop: the loop processes every example and ends
\* with accuracy = correct predictions / examples processed.
C5_EvalLoopSurvivesErrors ==
  /\ ~eval_state.aborted
  /\ eval_state.processed = Len(eval_state.outcomes)
  /\ eval_state.correct = Hits(eval_state.outcomes)
  /\ pc = "done" =>
       /\ eval_state.processed = n_examples
       /\ eval_state.accuracy = Some(<<Hits(eval_state.outcomes), n_examples>>)

\* C5 witness: the loop has ended after a failed request and a correct one.
C5_Witness ==
  /\ pc = "done"
  /\ \E i \in 1..Len(eval_state.outcomes) : eval_state.outcomes[i] \in NetworkErrors
  /\ \E i \in 1..Len(eval_state.outcomes) : eval_state.outcomes[i] = "ok_match"

C7_NoPartialBundleAfterFailure ==
  err.cell = "cell14" => (~VersionDir.exists \/ VersionDir.files = BundleFiles)

\* C9: a status check answered with a non-2xx code completes without an
\* unhandled exception, whatever the response body is.
C9_StatusCheckNeverRaises ==
  (IsSet(status_response) /\ ~Is2xx(Get(status_response).status_code))
  => err.cell # "status"

ExportWritten == IsSet(builder) /\ IsSet(Get(builder).signature_def_map)
AnySignatureBuilt == IsSet(classification_signature) \/ IsSet(prediction_signature)
BothSignaturesBuilt == IsSet(classification_signature) /\ IsSet(prediction_signature)

\* C10 as stated: nothing touches the bundle directory, creating the exporter
\* for the target path included, before both signatures are built, and no
\* signature is built before the graph is converted.
C10_ExporterAfterSignatures ==
  /\ IsSet(builder) => BothSignaturesBuilt
  /\ AnySignatureBuilt => IsSet(dnn_model_tf)

\* C10 amended: the graph is converted first; the model directory is cleaned
\* and the exporter created for the target path before any signature is
\* built; the export's writes of the graph and the signature map come after
\* both signatures are built.
C10_OrderOfSteps ==
  /\ IsSet(builder) => IsSet(dnn_model_tf)
  /\ AnySignatureBuilt => (IsSet(builder) /\ VersionDir.exists)
  /\ IsSet(prediction_signature) => IsSet(classification_signature)
  /\ (ExportWritten \/ (IsSet(builder) /\ VersionDir.files # {}))
       => BothSignaturesBuilt

\* C10 witness: the export has written the bundle with both signatures.
C10_Witness ==
  /\ ExportWritten
  /\ VersionDir.files = BundleFiles
  /\ BothSignaturesBuilt

\* C11: the signature map passed to the exporter holds the two signatures
\* under distinct keys, exactly one of them the reserved default key; under
\* the default key is the CLASSIFY signature with role keys "inputs" and
\* "scores"; the PREDICT signature, with the keys "images" and "scores",
\* is under a non-default key.
C11_SignatureMapKeys ==
  ExportWritten =>
    LET m == Get(Get(builder).signature_def_map)
        default == {k \in DOMAIN m : k = DEFAULT_SERVING_SIGNATURE_DEF_KEY}
        others == DOMAIN m \ default
    IN /\ Cardinality(DOMAIN m) = 2
       /\ Cardinality(default) = 1
       /\ \A k \in default :
            /\ m[k] = Get(classification_signature)
            /\ m[k].method_name = CLASSIFY_METHOD_NAME
            /\ DOMAIN m[k].inputs = {"inputs"}
            /\ DOMAIN m[k].outputs = {"scores"}
       /\ \A k \in others :
            /\ m[k] = Get(prediction_signature)
            /\ m[k].method_name = PREDICT_METHOD_NAME
            /\ DOMAIN m[k].inputs = {"images"}
            /\ DOMAIN m[k].outputs = {"scores"}

\* C11 witness: the export cell has passed its map to the exporter and the
\* bundle is saved.
C11_Witness ==
  /\ ExportWritten
  /\ Get(builder).saved
  /\ DOMAIN Get(Get(builder).signature_def_map)
       = {"predict_images", "serving_default"}

\* C12: the pre-export cleanup removes the whole model directory, so once
\* the cleanup and the exporter's creation have run, and through the export,
\* the model directory holds exactly one version directory, that of
\* model_version; every other version that lay there before is gone.
C12_OnlyExportedVersionRemains ==
  IsSet(builder) =>
    /\ fs.dir_exists
    /\ \A v \in Versions : fs.versions[v].exists <=> (v = model_version)

\* C12 witness: a version other than model_version lay in the model
\* directory before the run, and the export has saved its bundle.
C12_Witness ==
  /\ other_version_removed
  /\ IsSet(builder)
  /\ Get(builder).saved
  /\ VersionDir.files = BundleFiles
=============================================================================
